---------------------------- MODULE Spec2Model ----------------------------
(***************************************************************************)
(* Model of go-itertools (itertools/itertools.go).                         *)
(*                                                                         *)
(* Spec / FairSpec : one iteration of the sequence returned by IterCtx or  *)
(*                   IterCtx2: the consumer goroutine, the per-value       *)
(*                   worker goroutines, the unbuffered channel res, the    *)
(*                   mutex pullMutex, the pull handle (next, stop) and the *)
(*                   context's Done signal.                                *)
(* SpecAccumulate  : the sequence returned by Accumulate, iterated         *)
(*                   several times.                                        *)
(* SpecOps         : the constructors and the iteration functions of the   *)
(*                   other operators, one operator per behaviour.          *)
(***************************************************************************)
EXTENDS Integers, Sequences, FiniteSets, TLC

\* ------------------------------------------------------------------ bounds
\* longest input sequence
MaxLen == 3
\* number of times the sequence returned by Accumulate is iterated
MaxIters == 2
\* the input values of Accumulate are drawn from 1..MaxVal
MaxVal == 2
\* most input sequences passed to a variadic operator
MaxSeqs == 2
\* integer parameters (start, end) are drawn from -MaxAbs..MaxAbs
MaxAbs == 3
\* step parameters are drawn from -MaxStep..MaxStep
MaxStep == 2
\* values an iteration of an unending sequence is followed for
MaxOut == 7

VARIABLES
    \* ---- IterCtx / IterCtx2
    variant,      \* "IterCtx" or "IterCtx2": which function built the sequence
    seq,          \* the values of the inner sequence seq
    pos,          \* pull handle: number of values next() has produced
    stopped,      \* pull handle: stop() has run
    pullMutex,    \* <<"free",0>>, <<"consumer",0>> or <<"worker",w>>
    pc,           \* position of the consumer goroutine (the iteration function)
    cur,          \* number of loop iterations begun = id of the newest worker
    wpc,          \* position of each worker goroutine
    ok,           \* the variable ok of each loop iteration
    v,            \* the variable v (k, v for IterCtx2) of each loop iteration
    recv,         \* the value received from res in the select
    ctxDone,      \* ctx.Done() is closed
    delivered,    \* the values passed to yield so far
    exit,         \* why the iteration function is returning
    nextCalls,    \* number of calls of next() begun
    stopCalls,    \* number of calls of stop() begun
    \* ---- Accumulate
    accSeq,       \* the values of the input sequence seq
    accFn,        \* the parameter function
    accInitial,   \* the parameter initial
    current,      \* the variable current captured by the returned closure
    accPc,        \* "idle": not iterating, "loop": inside the range loop
    accIdx,       \* number of values of seq the range loop has consumed
    accOut,       \* the values yielded by the iteration in progress (or the last one)
    accIters      \* number of iterations of the returned sequence begun

VARIABLES
    \* ---- the other operators
    op,           \* the operator whose sequence is constructed and iterated
    args,         \* the arguments the constructor was called with
    captured,     \* the parameters the closure captured and assigns to
    opPc,         \* "new", "panic", "idle" or a position in the iteration function
    loc,          \* the local variables of the iteration function
    hnd,          \* the pull handles the iteration function created
    out,          \* the values passed to yield by the iteration in progress (or the last one)
    refused,      \* yield has returned false in this iteration
    iters         \* number of iterations of the sequence begun

opVars == <<op, args, captured, opPc, loc, hnd, out, refused, iters>>

bridgeVars == <<variant, seq, pos, stopped, pullMutex, pc, cur, wpc, ok, v, recv,
                ctxDone, delivered, exit, nextCalls, stopCalls>>
accVars == <<accSeq, accFn, accInitial, current, accPc, accIdx, accOut, accIters>>
vars == <<bridgeVars, accVars, opVars>>

\* ------------------------------------------------------------ IterCtx(2)
\* every loop iteration spawns one worker; ids are the iteration numbers
MaxWorkers == MaxLen + 2
Workers == 1..MaxWorkers

\* the zero value of V, or of seq2Store[K, V]
Zero(var) == IF var = "IterCtx" THEN 0 ELSE [k |-> 0, v |-> 0]

\* the i-th value of the inner sequence: a value for IterCtx, a pair for IterCtx2
Elem(var, i) == IF var = "IterCtx" THEN i ELSE [k |-> i, v |-> 10 + i]

InnerSeq(var, n) == [i \in 1..n |-> Elem(var, i)]

Free == <<"free", 0>>
ByConsumer == <<"consumer", 0>>
ByWorker(w) == <<"worker", w>>

\* next() of iter.Pull: the next value and true, or the zero value and false
\* once the sequence is exhausted or stop() has run
PullNextNoAdvance(var, s, p, st) ==
    IF st \/ p >= Len(s)
    THEN [val |-> Zero(var), ok |-> FALSE, pos |-> p]
    ELSE [val |-> s[IF p = 0 THEN 1 ELSE p], ok |-> TRUE, pos |-> p + 1]

PullNext(var, s, p, st) ==
    IF st \/ p >= Len(s)
    THEN [val |-> Zero(var), ok |-> FALSE, pos |-> p]
    ELSE [val |-> s[p + 1], ok |-> TRUE, pos |-> p + 1]

BridgeInit ==
    /\ variant \in {"IterCtx", "IterCtx2"}
    /\ \E n \in 0..MaxLen : seq = InnerSeq(variant, n)
    /\ pos = 0
    /\ stopped = FALSE
    /\ pullMutex = Free
    /\ pc = "loop"
    /\ cur = 0
    /\ wpc = [w \in Workers |-> "unspawned"]
    /\ ok = [w \in Workers |-> FALSE]
    /\ v = [w \in Workers |-> Zero(variant)]
    /\ recv = Zero(variant)
    /\ ctxDone = FALSE
    /\ delivered = <<>>
    /\ exit = "none"
    /\ nextCalls = 0
    /\ stopCalls = 0

\* the state of the Accumulate variables while the bridge is modelled
AccIdle ==
    /\ accSeq = <<>>
    /\ accFn = "add"
    /\ accInitial = 0
    /\ current = 0
    /\ accPc = "idle"
    /\ accIdx = 0
    /\ accOut = <<>>
    /\ accIters = 0

\* the state of the other operators' variables while op is modelled elsewhere
OpIdle(name) ==
    /\ op = name
    /\ args = <<>>
    /\ captured = <<>>
    /\ opPc = "idle"
    /\ loc = <<>>
    /\ hnd = <<>>
    /\ out = <<>>
    /\ refused = FALSE
    /\ iters = 0

Init == BridgeInit /\ AccIdle /\ OpIdle(variant)

\* top of the for loop: fresh ok, v and the go statement
Spawn ==
    /\ pc = "loop"
    /\ cur < MaxWorkers
    /\ cur' = cur + 1
    /\ wpc' = [wpc EXCEPT ![cur + 1] = "lock"]
    /\ pc' = "select"
    /\ UNCHANGED <<variant, seq, pos, stopped, pullMutex, ok, v, recv, ctxDone,
                   delivered, exit, nextCalls, stopCalls>>

\* worker: pullMutex.Lock()
WorkerLockNoMutex(w) ==
    /\ wpc[w] = "lock"
    /\ pullMutex' = ByWorker(w)
    /\ wpc' = [wpc EXCEPT ![w] = "call"]
    /\ UNCHANGED <<variant, seq, pos, stopped, pc, cur, ok, v, recv, ctxDone,
                   delivered, exit, nextCalls, stopCalls>>

WorkerLock(w) ==
    /\ wpc[w] = "lock"
    /\ pullMutex = Free
    /\ pullMutex' = ByWorker(w)
    /\ wpc' = [wpc EXCEPT ![w] = "call"]
    /\ UNCHANGED <<variant, seq, pos, stopped, pc, cur, ok, v, recv, ctxDone,
                   delivered, exit, nextCalls, stopCalls>>

\* worker: the call of next() begins
WorkerNextBegin(w) ==
    /\ wpc[w] = "call"
    /\ nextCalls' = nextCalls + 1
    /\ wpc' = [wpc EXCEPT ![w] = "innext"]
    /\ UNCHANGED <<variant, seq, pos, stopped, pullMutex, pc, cur, ok, v, recv,
                   ctxDone, delivered, exit, stopCalls>>

\* worker: next() returns and its results are assigned to v, ok
WorkerNextEnd(w) ==
    /\ wpc[w] = "innext"
    /\ LET r == PullNext(variant, seq, pos, stopped) IN
        /\ v' = [v EXCEPT ![w] = r.val]
        /\ ok' = [ok EXCEPT ![w] = r.ok]
        /\ pos' = r.pos
    /\ wpc' = [wpc EXCEPT ![w] = "send"]
    /\ UNCHANGED <<variant, seq, stopped, pullMutex, pc, cur, recv, ctxDone,
                   delivered, exit, nextCalls, stopCalls>>

\* res is unbuffered: the worker's send and the select's receive are one step;
\* the consumer then tests the ok of its current loop iteration
ReceiveIgnoreOk(w) ==
    /\ pc = "select"
    /\ wpc[w] = "send"
    /\ recv' = v[w]
    /\ wpc' = [wpc EXCEPT ![w] = "unlock"]
    /\ pc' = "yield"
    /\ UNCHANGED exit
    /\ UNCHANGED <<variant, seq, pos, stopped, pullMutex, cur, ok, v, ctxDone,
                   delivered, nextCalls, stopCalls>>

Receive(w) ==
    /\ pc = "select"
    /\ wpc[w] = "send"
    /\ recv' = v[w]
    /\ wpc' = [wpc EXCEPT ![w] = "unlock"]
    /\ IF ok[cur]
       THEN pc' = "yield" /\ UNCHANGED exit
       ELSE pc' = "deferLock" /\ exit' = "exhausted"
    /\ UNCHANGED <<variant, seq, pos, stopped, pullMutex, cur, ok, v, ctxDone,
                   delivered, nextCalls, stopCalls>>

\* worker: the deferred pullMutex.Unlock(), then the goroutine ends
WorkerUnlock(w) ==
    /\ wpc[w] = "unlock"
    /\ pullMutex' = Free
    /\ wpc' = [wpc EXCEPT ![w] = "done"]
    /\ UNCHANGED <<variant, seq, pos, stopped, pc, cur, ok, v, recv, ctxDone,
                   delivered, exit, nextCalls, stopCalls>>

\* select: case <-ctx.Done(): return
SelectDone ==
    /\ pc = "select"
    /\ ctxDone
    /\ pc' = "deferLock"
    /\ exit' = "cancel"
    /\ UNCHANGED <<variant, seq, pos, stopped, pullMutex, cur, wpc, ok, v, recv,
                   ctxDone, delivered, nextCalls, stopCalls>>

\* the consumer's callback is called with the received value
YieldCallPrefetch ==
    /\ pc = "yield"
    /\ delivered' = Append(delivered, recv)
    /\ pc' = "inyield"
    /\ IF cur < MaxWorkers
       THEN cur' = cur + 1 /\ wpc' = [wpc EXCEPT ![cur + 1] = "lock"]
       ELSE UNCHANGED <<cur, wpc>>
    /\ UNCHANGED <<variant, seq, pos, stopped, pullMutex, ok, v, recv,
                   ctxDone, exit, nextCalls, stopCalls>>

YieldCall ==
    /\ pc = "yield"
    /\ delivered' = Append(delivered, recv)
    /\ pc' = "inyield"
    /\ UNCHANGED <<variant, seq, pos, stopped, pullMutex, cur, wpc, ok, v, recv,
                   ctxDone, exit, nextCalls, stopCalls>>

\* the callback returns true or false, or panics; the deferred function runs
\* on return and on panic
YieldReturnNoDefer ==
    /\ pc = "inyield"
    /\ \E r \in {"true", "false", "panic"} :
        \/ r = "true" /\ pc' = "loop" /\ UNCHANGED exit
        \/ r = "false" /\ pc' = "deferLock" /\ exit' = "stop"
        \/ r = "panic" /\ pc' = "done" /\ exit' = "panic"
    /\ UNCHANGED <<variant, seq, pos, stopped, pullMutex, cur, wpc, ok, v, recv,
                   ctxDone, delivered, nextCalls, stopCalls>>

YieldReturn ==
    /\ pc = "inyield"
    /\ \E r \in {"true", "false", "panic"} :
        \/ r = "true" /\ pc' = "loop" /\ UNCHANGED exit
        \/ r = "false" /\ pc' = "deferLock" /\ exit' = "stop"
        \/ r = "panic" /\ pc' = "deferLock" /\ exit' = "panic"
    /\ UNCHANGED <<variant, seq, pos, stopped, pullMutex, cur, wpc, ok, v, recv,
                   ctxDone, delivered, nextCalls, stopCalls>>

\* deferred function: pullMutex.Lock()
DeferLock ==
    /\ pc = "deferLock"
    /\ pullMutex = Free
    /\ pullMutex' = ByConsumer
    /\ pc' = "stop"
    /\ UNCHANGED <<variant, seq, pos, stopped, cur, wpc, ok, v, recv, ctxDone,
                   delivered, exit, nextCalls, stopCalls>>

\* deferred function: the call of stop() begins
StopBegin ==
    /\ pc = "stop"
    /\ stopCalls' = stopCalls + 1
    /\ pc' = "instop"
    /\ UNCHANGED <<variant, seq, pos, stopped, pullMutex, cur, wpc, ok, v, recv,
                   ctxDone, delivered, exit, nextCalls>>

\* deferred function: stop() returns
StopEnd ==
    /\ pc = "instop"
    /\ stopped' = TRUE
    /\ pc' = "deferUnlock"
    /\ UNCHANGED <<variant, seq, pos, pullMutex, cur, wpc, ok, v, recv, ctxDone,
                   delivered, exit, nextCalls, stopCalls>>

\* deferred function: the deferred pullMutex.Unlock(); the function returns
DeferUnlock ==
    /\ pc = "deferUnlock"
    /\ pullMutex' = Free
    /\ pc' = "done"
    /\ UNCHANGED <<variant, seq, pos, stopped, cur, wpc, ok, v, recv, ctxDone,
                   delivered, exit, nextCalls, stopCalls>>

\* the owner of ctx cancels it, at any moment, once
Cancel ==
    /\ ~ctxDone
    /\ ctxDone' = TRUE
    /\ UNCHANGED <<variant, seq, pos, stopped, pullMutex, pc, cur, wpc, ok, v,
                   recv, delivered, exit, nextCalls, stopCalls>>

ConsumerStep ==
    \/ Spawn
    \/ \E w \in Workers : Receive(w)
    \/ SelectDone
    \/ YieldCall
    \/ YieldReturn
    \/ DeferLock
    \/ StopBegin
    \/ StopEnd
    \/ DeferUnlock

WorkerStep(w) ==
    \/ WorkerLock(w)
    \/ WorkerNextBegin(w)
    \/ WorkerNextEnd(w)
    \/ WorkerUnlock(w)

Next ==
    \/ ConsumerStep /\ UNCHANGED <<accVars, opVars>>
    \/ (\E w \in Workers : WorkerStep(w)) /\ UNCHANGED <<accVars, opVars>>
    \/ Cancel /\ UNCHANGED <<accVars, opVars>>

Spec == Init /\ [][Next]_vars

\* the Go scheduler runs every goroutine that can take a step; the owner of
\* ctx is under no obligation to cancel
FairSpec ==
    /\ Spec
    /\ WF_vars(ConsumerStep /\ UNCHANGED <<accVars, opVars>>)
    /\ \A w \in Workers : WF_vars(WorkerStep(w) /\ UNCHANGED <<accVars, opVars>>)


\* ------------------------------------------------------------ Accumulate
\* the state of the bridge variables while Accumulate is modelled
BridgeIdle ==
    /\ variant = "IterCtx"
    /\ seq = <<>>
    /\ pos = 0
    /\ stopped = FALSE
    /\ pullMutex = Free
    /\ pc = "loop"
    /\ cur = 0
    /\ wpc = [w \in Workers |-> "unspawned"]
    /\ ok = [w \in Workers |-> FALSE]
    /\ v = [w \in Workers |-> 0]
    /\ recv = 0
    /\ ctxDone = FALSE
    /\ delivered = <<>>
    /\ exit = "none"
    /\ nextCalls = 0
    /\ stopCalls = 0

\* the finite sequences over S of length at most n
SeqsUpTo(S, n) == UNION {[1..m -> S] : m \in 0..n}

\* the parameter function applied to the accumulated total and a value
Function(fn, acc, val) == IF fn = "add" THEN acc + val ELSE acc * val

\* Accumulate(seq, function, initial) has returned its closure:
\* current := initial has run once
AccInit ==
    /\ accSeq \in SeqsUpTo(1..MaxVal, MaxLen)
    /\ accFn \in {"add", "mul"}
    /\ accInitial \in 0..1
    /\ current = accInitial
    /\ accPc = "idle"
    /\ accIdx = 0
    /\ accOut = <<>>
    /\ accIters = 0

\* the returned sequence is iterated: the closure is called and begins to
\* range over seq
AccIterate ==
    /\ accPc = "idle"
    /\ accIters < MaxIters
    /\ accIters' = accIters + 1
    /\ accPc' = "loop"
    /\ accIdx' = 0
    /\ accOut' = <<>>
    /\ UNCHANGED <<accSeq, accFn, accInitial, current>>

\* one pass of the loop body: fold the value into current, yield it, and
\* return if the consumer's callback returns false
AccStep ==
    /\ accPc = "loop"
    /\ accIdx < Len(accSeq)
    /\ LET c == Function(accFn, current, accSeq[accIdx + 1]) IN
        /\ current' = c
        /\ accOut' = Append(accOut, c)
    /\ accIdx' = accIdx + 1
    /\ \E more \in BOOLEAN : accPc' = IF more THEN "loop" ELSE "idle"
    /\ UNCHANGED <<accSeq, accFn, accInitial, accIters>>

\* seq is exhausted: the closure returns
AccExhausted ==
    /\ accPc = "loop"
    /\ accIdx = Len(accSeq)
    /\ accPc' = "idle"
    /\ UNCHANGED <<accSeq, accFn, accInitial, current, accIdx, accOut, accIters>>

InitAccumulate == BridgeIdle /\ AccInit /\ OpIdle("Accumulate")

NextAccumulate ==
    \/ AccIterate /\ UNCHANGED <<bridgeVars, opVars>>
    \/ AccStep /\ UNCHANGED <<bridgeVars, opVars>>
    \/ AccExhausted /\ UNCHANGED <<bridgeVars, opVars>>

SpecAccumulate == InitAccumulate /\ [][NextAccumulate]_vars

\* ------------------------------------------------------ other operators
\* the Seq2 variants carry pairs where the Seq operators carry values
Is2(o) == o \in {"Slice2", "SliceUntil2", "Zip2", "Chain2", "Cycle2", "Map2", "Filter2",
                 "Compress2", "DropWhile2", "TakeWhile2", "Keys", "Values"}

Kind(o) == IF Is2(o) THEN "IterCtx2" ELSE "IterCtx"

\* the j-th value of the s-th input sequence
Val(o, s, j) ==
    IF Is2(o) THEN [k |-> 10 * s + j, v |-> 100 + 10 * s + j] ELSE 10 * s + j

\* the s-th input sequence, of length n (slices.Values of a slice)
Input(o, s, n) == [j \in 1..n |-> Val(o, s, j)]

\* Keys and Values as Zip pulls them: the first, the second of every pair
Keys(s) == [j \in DOMAIN s |-> s[j].k]

Values(s) == [j \in DOMAIN s |-> s[j].v]

\* Go's integer division truncates towards zero; % has the dividend's sign
GoDiv(a, b) ==
    IF (a >= 0) = (b > 0) THEN (IF a >= 0 THEN a ELSE -a) \div (IF b > 0 THEN b ELSE -b)
    ELSE -((IF a >= 0 THEN a ELSE -a) \div (IF b > 0 THEN b ELSE -b))

GoMod(a, b) == a - b * GoDiv(a, b)

getRangeLenCeil(start, end, step) ==
    IF step > 0 /\ start < end THEN 1 + GoDiv(end - start, step)
    ELSE IF step < 0 /\ start > end THEN 1 + GoDiv(start - end, -step)
    ELSE 0

getRangeLen(start, end, step) ==
    IF step > 0 /\ start < end THEN 1 + GoDiv(end - start - 1, step)
    ELSE IF step < 0 /\ start > end THEN 1 + GoDiv(start - end - 1, -step)
    ELSE 0

\* the values Slice yields to a consumer that never stops it: the loop
\* for i := start; i < end; i++ with p elements of s pulled so far
RECURSIVE SliceFrom(_, _, _, _, _, _)
SliceFrom(s, p, i, start, end, step) ==
    IF i < end /\ p < Len(s)
    THEN (IF GoMod(i - start, step) = 0 THEN <<s[p + 1]>> ELSE <<>>)
            \o SliceFrom(s, p + 1, i + 1, start, end, step)
    ELSE <<>>

SliceSkipsOneMore(s, start, end, step) ==
    LET n == getRangeLen(0, start, 1) + 1 IN
    IF n > Len(s) THEN <<>> ELSE SliceFrom(s, n, start, start, end, step)

\* the leading elements are pulled and discarded, then the loop runs
Slice(s, start, end, step) ==
    LET n == getRangeLen(0, start, 1) IN
    IF n > Len(s) THEN <<>> ELSE SliceFrom(s, n, start, start, end, step)

\* a pull handle as iter.Pull returns it
NewHandle == [pos |-> 0, stopped |-> FALSE, nexts |-> 0, stops |-> 0, late |-> 0]

\* next() on handle s over the values vals: the result and the handles after
HndNext(h, s, vals) ==
    LET r == PullNext(Kind(op), vals, h[s].pos, h[s].stopped) IN
    [val |-> r.val, ok |-> r.ok,
     hnd |-> [h EXCEPT ![s] = [@ EXCEPT !.pos = r.pos, !.nexts = @ + 1,
                                        !.late = @ + (IF h[s].stopped THEN 1 ELSE 0)]]]

\* the deferred stop() of every handle, run when the iteration function returns
DeferredStops(h) ==
    [s \in DOMAIN h |-> [h[s] EXCEPT !.stopped = TRUE, !.stops = @ + 1]]

\* the operators that panic on a zero step, and on a non-positive step
RangeOps == {"Range", "RangeUntil"}
SliceOps == {"Slice", "SliceUntil", "Slice2", "SliceUntil2"}
\* Flatten returns the closure of Zip(Keys(seq), Values(seq))
ZipOps == {"Zip", "Zip2", "Flatten"}
MapOps == {"Map", "Map2"}
FilterOps == {"Filter", "Filter2"}
CompressOps == {"Compress", "Compress2"}
DropWhileOps == {"DropWhile", "DropWhile2"}
TakeWhileOps == {"TakeWhile", "TakeWhile2"}
ProjectOps == {"Keys", "Values"}
ChainOps == {"Chain", "Chain2"}
CycleOps == {"Cycle", "Cycle2"}

\* the condition under which the constructor panics
PanicsLazySlice(o, a) ==
    \/ o \in RangeOps /\ a.step = 0
    \/ o \in SliceOps /\ a.step < 0

Panics(o, a) ==
    \/ o \in RangeOps /\ a.step = 0
    \/ o \in SliceOps /\ a.step <= 0

\* the constructor is called: it panics or returns the closure
Construct ==
    /\ opPc = "new"
    /\ opPc' = IF Panics(op, args) THEN "panic" ELSE "idle"
    /\ captured' = IF op = "Enumerate" THEN [start |-> args.start] ELSE <<>>
    /\ UNCHANGED <<op, args, loc, hnd, out, refused, iters>>

\* the local variables at the start of the iteration function
LocInit(o, a) ==
    IF o \in RangeOps
    THEN [x |-> a.start, length |-> getRangeLen(a.start, a.end, a.step)]
    ELSE IF o \in SliceOps
    THEN [n |-> getRangeLen(0, a.start, 1), i |-> a.start]
    ELSE IF o = "Enumerate" THEN [j |-> 0]
    ELSE IF o \in ZipOps THEN [j |-> 1]
    ELSE IF o = "ZipPair" THEN [v1 |-> 0]
    ELSE IF o = "ZipLongest"
    THEN [nexts |-> [s \in 1..Len(a.seqs) |-> TRUE],
          liveCount |-> Len(a.seqs),
          results |-> [s \in 1..Len(a.seqs) |-> 0],
          i |-> 1]
    ELSE IF o \in ChainOps THEN [s |-> 1, j |-> 0]
    ELSE IF o \in CycleOps THEN [first |-> TRUE, j |-> 0, saved |-> <<>>]
    ELSE IF o \in MapOps \cup FilterOps \cup TakeWhileOps \cup ProjectOps THEN [j |-> 0]
    ELSE IF o \in DropWhileOps THEN [j |-> 0, start |-> FALSE]
    ELSE IF o \in CompressOps THEN [v1 |-> 0]
    ELSE IF o = "RangeFrom" THEN [x |-> a.start]
    ELSE IF o = "Repeat" THEN [n |-> 0]
    ELSE <<>>

\* the pull handles the iteration function creates before its loop
HndInit(o, a) ==
    IF o \in SliceOps THEN <<NewHandle>>
    ELSE IF o \in ZipOps \cup {"ZipLongest"} THEN [s \in 1..Len(a.seqs) |-> NewHandle]
    ELSE IF o \in {"ZipPair"} \cup CompressOps THEN <<NewHandle, NewHandle>>
    ELSE <<>>

FirstPc(o) ==
    IF o \in SliceOps THEN "skip"
    ELSE IF o \in {"ZipPair"} \cup CompressOps THEN "next1"
    ELSE IF o = "ZipLongest" THEN "pull"
    ELSE IF o \in CycleOps THEN "first"
    ELSE "loop"

\* the returned sequence is iterated: the closure is called
Iterate ==
    /\ opPc = "idle"
    /\ iters < MaxIters
    /\ iters' = iters + 1
    /\ loc' = LocInit(op, args)
    /\ hnd' = HndInit(op, args)
    /\ out' = <<>>
    /\ refused' = FALSE
    /\ opPc' = FirstPc(op)
    /\ UNCHANGED <<op, args, captured>>

\* ---- Range, RangeUntil
\* loop test and the call of yield
RangeLoop ==
    /\ op \in RangeOps
    /\ opPc = "loop"
    /\ IF loc.length > 0
       THEN out' = Append(out, loc.x) /\ opPc' = "yield"
       ELSE out' = out /\ opPc' = "idle"
    /\ UNCHANGED <<op, args, captured, loc, hnd, refused, iters>>

\* yield returns: return on false, else length-- and x += step
RangeYielded ==
    /\ op \in RangeOps
    /\ opPc = "yield"
    /\ \E r \in BOOLEAN :
        /\ refused' = ~r
        /\ IF r
           THEN /\ loc' = [loc EXCEPT !.length = @ - 1, !.x = @ + args.step]
                /\ opPc' = "loop"
           ELSE /\ loc' = loc
                /\ opPc' = "idle"
    /\ UNCHANGED <<op, args, captured, hnd, out, iters>>

\* ---- Slice, SliceUntil, Slice2, SliceUntil2
\* for range RangeUntil(start, 1): pull and discard the leading elements
SliceSkip ==
    /\ op \in SliceOps
    /\ opPc = "skip"
    /\ IF loc.n > 0
       THEN LET r == HndNext(hnd, 1, args.seq) IN
            IF r.ok
            THEN /\ hnd' = r.hnd
                 /\ loc' = [loc EXCEPT !.n = @ - 1]
                 /\ opPc' = "skip"
            ELSE /\ hnd' = DeferredStops(r.hnd)
                 /\ loc' = loc
                 /\ opPc' = "idle"
       ELSE /\ hnd' = hnd
            /\ loc' = loc
            /\ opPc' = "loop"
    /\ UNCHANGED <<op, args, captured, out, refused, iters>>

\* for i := start; i < end; i++: pull, and yield every step-th element
SliceLoopInclusive ==
    /\ op \in SliceOps
    /\ opPc = "loop"
    /\ IF loc.i <= args.end
       THEN LET r == HndNext(hnd, 1, args.seq) IN
            IF ~r.ok
            THEN /\ hnd' = DeferredStops(r.hnd)
                 /\ UNCHANGED <<loc, out>>
                 /\ opPc' = "idle"
            ELSE IF args.step = 0
            THEN /\ hnd' = DeferredStops(r.hnd)
                 /\ UNCHANGED <<loc, out>>
                 /\ opPc' = "panic"
            ELSE IF GoMod(loc.i - args.start, args.step) = 0
            THEN /\ hnd' = r.hnd
                 /\ out' = Append(out, r.val)
                 /\ loc' = loc
                 /\ opPc' = "yield"
            ELSE /\ hnd' = r.hnd
                 /\ out' = out
                 /\ loc' = [loc EXCEPT !.i = @ + 1]
                 /\ opPc' = "loop"
       ELSE /\ hnd' = DeferredStops(hnd)
            /\ UNCHANGED <<loc, out>>
            /\ opPc' = "idle"
    /\ UNCHANGED <<op, args, captured, refused, iters>>

SliceLoop ==
    /\ op \in SliceOps
    /\ opPc = "loop"
    /\ IF loc.i < args.end
       THEN LET r == HndNext(hnd, 1, args.seq) IN
            IF ~r.ok
            THEN /\ hnd' = DeferredStops(r.hnd)
                 /\ UNCHANGED <<loc, out>>
                 /\ opPc' = "idle"
            ELSE IF args.step = 0
            THEN \* integer divide by zero: a run-time panic, the deferred stop runs
                 /\ hnd' = DeferredStops(r.hnd)
                 /\ UNCHANGED <<loc, out>>
                 /\ opPc' = "panic"
            ELSE IF GoMod(loc.i - args.start, args.step) = 0
            THEN /\ hnd' = r.hnd
                 /\ out' = Append(out, r.val)
                 /\ loc' = loc
                 /\ opPc' = "yield"
            ELSE /\ hnd' = r.hnd
                 /\ out' = out
                 /\ loc' = [loc EXCEPT !.i = @ + 1]
                 /\ opPc' = "loop"
       ELSE /\ hnd' = DeferredStops(hnd)
            /\ UNCHANGED <<loc, out>>
            /\ opPc' = "idle"
    /\ UNCHANGED <<op, args, captured, refused, iters>>

SliceYielded ==
    /\ op \in SliceOps
    /\ opPc = "yield"
    /\ \E r \in BOOLEAN :
        /\ refused' = ~r
        /\ IF r
           THEN /\ loc' = [loc EXCEPT !.i = @ + 1]
                /\ hnd' = hnd
                /\ opPc' = "loop"
           ELSE /\ loc' = loc
                /\ hnd' = DeferredStops(hnd)
                /\ opPc' = "idle"
    /\ UNCHANGED <<op, args, captured, out, iters>>

\* ---- Enumerate
\* for v := range seq: the call of yield(start, v)
EnumerateLoop ==
    /\ op = "Enumerate"
    /\ opPc = "loop"
    /\ IF loc.j < Len(args.seq)
       THEN /\ out' = Append(out, <<captured.start, args.seq[loc.j + 1]>>)
            /\ opPc' = "yield"
       ELSE /\ out' = out
            /\ opPc' = "idle"
    /\ UNCHANGED <<op, args, captured, loc, hnd, refused, iters>>

\* yield returns: return on false, else start++ on the captured parameter start
EnumerateYielded ==
    /\ op = "Enumerate"
    /\ opPc = "yield"
    /\ \E r \in BOOLEAN :
        /\ refused' = ~r
        /\ IF r
           THEN /\ captured' = [captured EXCEPT !.start = @ + 1]
                /\ loc' = [loc EXCEPT !.j = @ + 1]
                /\ opPc' = "loop"
           ELSE /\ captured' = captured
                /\ loc' = loc
                /\ opPc' = "idle"
    /\ UNCHANGED <<op, args, hnd, out, iters>>

\* ---- Zip, Zip2
\* the inner loop over nexts inside the endless for: pull and call yield;
\* with no input sequences the endless loop has nothing to do and spins
ZipLoop ==
    /\ op \in ZipOps
    /\ opPc = "loop"
    /\ IF Len(args.seqs) = 0
       THEN UNCHANGED <<hnd, out, opPc>>
       ELSE LET r == HndNext(hnd, loc.j, args.seqs[loc.j]) IN
            IF r.ok
            THEN /\ hnd' = r.hnd
                 /\ out' = Append(out, r.val)
                 /\ opPc' = "yield"
            ELSE /\ hnd' = DeferredStops(r.hnd)
                 /\ out' = out
                 /\ opPc' = "idle"
    /\ UNCHANGED <<op, args, captured, loc, refused, iters>>

ZipYieldedNoStop ==
    /\ op \in ZipOps
    /\ opPc = "yield"
    /\ \E r \in BOOLEAN :
        /\ refused' = ~r
        /\ IF r
           THEN /\ loc' = [loc EXCEPT !.j = (loc.j % Len(args.seqs)) + 1]
                /\ hnd' = hnd
                /\ opPc' = "loop"
           ELSE /\ loc' = loc
                /\ hnd' = hnd
                /\ opPc' = "idle"
    /\ UNCHANGED <<op, args, captured, out, iters>>

ZipYielded ==
    /\ op \in ZipOps
    /\ opPc = "yield"
    /\ \E r \in BOOLEAN :
        /\ refused' = ~r
        /\ IF r
           THEN /\ loc' = [loc EXCEPT !.j = (loc.j % Len(args.seqs)) + 1]
                /\ hnd' = hnd
                /\ opPc' = "loop"
           ELSE /\ loc' = loc
                /\ hnd' = DeferredStops(hnd)
                /\ opPc' = "idle"
    /\ UNCHANGED <<op, args, captured, out, iters>>

\* ---- ZipPair
\* v1, ok := next1()
ZipPairNext1 ==
    /\ op = "ZipPair"
    /\ opPc = "next1"
    /\ LET r == HndNext(hnd, 1, args.seq1) IN
        IF r.ok
        THEN /\ hnd' = r.hnd
             /\ loc' = [loc EXCEPT !.v1 = r.val]
             /\ opPc' = "next2"
        ELSE /\ hnd' = DeferredStops(r.hnd)
             /\ loc' = loc
             /\ opPc' = "idle"
    /\ UNCHANGED <<op, args, captured, out, refused, iters>>

\* v2, ok := next2() and the call of yield(v1, v2)
ZipPairNext2NoCheck ==
    /\ op = "ZipPair"
    /\ opPc = "next2"
    /\ LET r == HndNext(hnd, 2, args.seq2) IN
        /\ hnd' = r.hnd
        /\ out' = Append(out, <<loc.v1, r.val>>)
        /\ opPc' = "yield"
    /\ UNCHANGED <<op, args, captured, loc, refused, iters>>

ZipPairNext2 ==
    /\ op = "ZipPair"
    /\ opPc = "next2"
    /\ LET r == HndNext(hnd, 2, args.seq2) IN
        IF r.ok
        THEN /\ hnd' = r.hnd
             /\ out' = Append(out, <<loc.v1, r.val>>)
             /\ opPc' = "yield"
        ELSE /\ hnd' = DeferredStops(r.hnd)
             /\ out' = out
             /\ opPc' = "idle"
    /\ UNCHANGED <<op, args, captured, loc, refused, iters>>

ZipPairYielded ==
    /\ op = "ZipPair"
    /\ opPc = "yield"
    /\ \E r \in BOOLEAN :
        /\ refused' = ~r
        /\ IF r
           THEN hnd' = hnd /\ opPc' = "next1"
           ELSE hnd' = DeferredStops(hnd) /\ opPc' = "idle"
    /\ UNCHANGED <<op, args, captured, loc, out, iters>>

\* ---- ZipLongest
\* the loop over nexts that fills results, then the test of liveCount
ZipLongestPullStale ==
    /\ op = "ZipLongest"
    /\ opPc = "pull"
    /\ IF loc.i <= Len(args.seqs)
       THEN IF ~loc.nexts[loc.i]
            THEN /\ loc' = [loc EXCEPT !.results[loc.i] = args.fillValue, !.i = @ + 1]
                 /\ hnd' = hnd
                 /\ opPc' = "pull"
            ELSE LET r == HndNext(hnd, loc.i, args.seqs[loc.i]) IN
                 /\ hnd' = r.hnd
                 /\ opPc' = "pull"
                 /\ loc' = IF r.ok
                           THEN [loc EXCEPT !.results[loc.i] = r.val, !.i = @ + 1]
                           ELSE [loc EXCEPT !.nexts[loc.i] = FALSE,
                                            !.liveCount = @ - 1,
                                            !.i = @ + 1]
       ELSE IF loc.liveCount = 0
            THEN /\ hnd' = DeferredStops(hnd)
                 /\ loc' = loc
                 /\ opPc' = "idle"
            ELSE /\ hnd' = hnd
                 /\ loc' = [loc EXCEPT !.i = 1]
                 /\ opPc' = "emit"
    /\ UNCHANGED <<op, args, captured, out, refused, iters>>

ZipLongestPull ==
    /\ op = "ZipLongest"
    /\ opPc = "pull"
    /\ IF loc.i <= Len(args.seqs)
       THEN IF ~loc.nexts[loc.i]
            THEN /\ loc' = [loc EXCEPT !.results[loc.i] = args.fillValue, !.i = @ + 1]
                 /\ hnd' = hnd
                 /\ opPc' = "pull"
            ELSE LET r == HndNext(hnd, loc.i, args.seqs[loc.i]) IN
                 /\ hnd' = r.hnd
                 /\ opPc' = "pull"
                 /\ loc' = IF r.ok
                           THEN [loc EXCEPT !.results[loc.i] = r.val, !.i = @ + 1]
                           ELSE [loc EXCEPT !.nexts[loc.i] = FALSE,
                                            !.liveCount = @ - 1,
                                            !.results[loc.i] = args.fillValue,
                                            !.i = @ + 1]
       ELSE IF loc.liveCount = 0
            THEN /\ hnd' = DeferredStops(hnd)
                 /\ loc' = loc
                 /\ opPc' = "idle"
            ELSE /\ hnd' = hnd
                 /\ loc' = [loc EXCEPT !.i = 1]
                 /\ opPc' = "emit"
    /\ UNCHANGED <<op, args, captured, out, refused, iters>>

\* the loop over results: the call of yield, or back to the endless loop
ZipLongestEmit ==
    /\ op = "ZipLongest"
    /\ opPc = "emit"
    /\ IF loc.i <= Len(args.seqs)
       THEN /\ out' = Append(out, loc.results[loc.i])
            /\ loc' = loc
            /\ opPc' = "yield"
       ELSE /\ out' = out
            /\ loc' = [loc EXCEPT !.i = 1]
            /\ opPc' = "pull"
    /\ UNCHANGED <<op, args, captured, hnd, refused, iters>>

ZipLongestYieldedIgnoresStop ==
    /\ op = "ZipLongest"
    /\ opPc = "yield"
    /\ \E r \in BOOLEAN :
        /\ refused' = (refused \/ ~r)
        /\ loc' = [loc EXCEPT !.i = @ + 1]
        /\ hnd' = hnd
        /\ opPc' = "emit"
    /\ UNCHANGED <<op, args, captured, out, iters>>

ZipLongestYielded ==
    /\ op = "ZipLongest"
    /\ opPc = "yield"
    /\ \E r \in BOOLEAN :
        /\ refused' = ~r
        /\ IF r
           THEN /\ loc' = [loc EXCEPT !.i = @ + 1]
                /\ hnd' = hnd
                /\ opPc' = "emit"
           ELSE /\ loc' = loc
                /\ hnd' = DeferredStops(hnd)
                /\ opPc' = "idle"
    /\ UNCHANGED <<op, args, captured, out, iters>>

\* ---- Chain, Chain2
\* the loop over seqs and the range loop over the current sequence
ChainLoopStopsAtFirstEnd ==
    /\ op \in ChainOps
    /\ opPc = "loop"
    /\ IF loc.s > Len(args.seqs)
       THEN UNCHANGED <<loc, out>> /\ opPc' = "idle"
       ELSE IF loc.j < Len(args.seqs[loc.s])
       THEN /\ out' = Append(out, args.seqs[loc.s][loc.j + 1])
            /\ loc' = loc
            /\ opPc' = "yield"
       ELSE UNCHANGED <<loc, out>> /\ opPc' = "idle"
    /\ UNCHANGED <<op, args, captured, hnd, refused, iters>>

ChainLoop ==
    /\ op \in ChainOps
    /\ opPc = "loop"
    /\ IF loc.s > Len(args.seqs)
       THEN UNCHANGED <<loc, out>> /\ opPc' = "idle"
       ELSE IF loc.j < Len(args.seqs[loc.s])
       THEN /\ out' = Append(out, args.seqs[loc.s][loc.j + 1])
            /\ loc' = loc
            /\ opPc' = "yield"
       ELSE /\ out' = out
            /\ loc' = [s |-> loc.s + 1, j |-> 0]
            /\ opPc' = "loop"
    /\ UNCHANGED <<op, args, captured, hnd, refused, iters>>

ChainYielded ==
    /\ op \in ChainOps
    /\ opPc = "yield"
    /\ \E r \in BOOLEAN :
        /\ refused' = ~r
        /\ IF r
           THEN loc' = [loc EXCEPT !.j = @ + 1] /\ opPc' = "loop"
           ELSE loc' = loc /\ opPc' = "idle"
    /\ UNCHANGED <<op, args, captured, hnd, out, iters>>

\* ---- Cycle, Cycle2
\* for v := range iterable: the call of yield, or on to the endless loop
CycleFirst ==
    /\ op \in CycleOps
    /\ opPc = "first"
    /\ IF loc.j < Len(args.iterable)
       THEN /\ Len(out) < MaxOut
            /\ out' = Append(out, args.iterable[loc.j + 1])
            /\ loc' = loc
            /\ opPc' = "yield"
       ELSE /\ out' = out
            /\ loc' = [loc EXCEPT !.first = FALSE, !.j = 0]
            /\ opPc' = "again"
    /\ UNCHANGED <<op, args, captured, hnd, refused, iters>>

\* for { for _, v := range saved }: the call of yield, or the next round;
\* with nothing saved the endless loop spins
CycleAgainOffByOne ==
    /\ op \in CycleOps
    /\ opPc = "again"
    /\ IF loc.j < Len(loc.saved)
       THEN /\ Len(out) < MaxOut
            /\ out' = Append(out, loc.saved[loc.j + 1])
            /\ loc' = loc
            /\ opPc' = "yield"
       ELSE /\ out' = out
            /\ loc' = [loc EXCEPT !.j = IF Len(loc.saved) > 1 THEN 1 ELSE 0]
            /\ opPc' = "again"
    /\ UNCHANGED <<op, args, captured, hnd, refused, iters>>

CycleAgain ==
    /\ op \in CycleOps
    /\ opPc = "again"
    /\ IF loc.j < Len(loc.saved)
       THEN /\ Len(out) < MaxOut
            /\ out' = Append(out, loc.saved[loc.j + 1])
            /\ loc' = loc
            /\ opPc' = "yield"
       ELSE /\ out' = out
            /\ loc' = [loc EXCEPT !.j = 0]
            /\ opPc' = "again"
    /\ UNCHANGED <<op, args, captured, hnd, refused, iters>>

\* yield returns: return on false; in the first pass the value is saved
CycleYielded ==
    /\ op \in CycleOps
    /\ opPc = "yield"
    /\ \E r \in BOOLEAN :
        /\ refused' = ~r
        /\ IF r
           THEN /\ loc' = [loc EXCEPT
                             !.saved = IF loc.first
                                       THEN Append(@, args.iterable[loc.j + 1])
                                       ELSE @,
                             !.j = @ + 1]
                /\ opPc' = IF loc.first THEN "first" ELSE "again"
           ELSE /\ loc' = loc
                /\ opPc' = "idle"
    /\ UNCHANGED <<op, args, captured, hnd, out, iters>>

\* ---- the parameter functions
\* mapFunc: one more than the value; for Map2 the pair swapped
mapFunc(o, x) == IF o = "Map2" THEN [k |-> x.v, v |-> x.k] ELSE x + 1

\* the predicates passed as filterFunc or predicate; predicates on a pair
\* look at its key
Preds == {"odd", "small"}

Holds(p, o, x) ==
    LET n == IF Is2(o) THEN x.k ELSE x IN
    IF p = "odd" THEN n % 2 = 1 ELSE n % 10 <= 2

\* the values TakeWhile and TakeWhile2 yield to a consumer that never stops
RECURSIVE TakeWhile(_, _, _)
TakeWhile(o, s, p) ==
    IF s = <<>> \/ ~Holds(p, o, s[1]) THEN <<>>
    ELSE <<s[1]>> \o TakeWhile(o, Tail(s), p)

\* the values DropWhile and DropWhile2 yield to a consumer that never stops,
\* from the value start has before the element s[1]
RECURSIVE DropWhileFrom(_, _, _, _)
DropWhileFrom(o, s, p, start) ==
    IF s = <<>> THEN <<>>
    ELSE LET started == start \/ ~Holds(p, o, s[1]) IN
         (IF started THEN <<s[1]>> ELSE <<>>) \o DropWhileFrom(o, Tail(s), p, started)

DropWhile(o, s, p) == DropWhileFrom(o, s, p, FALSE)

\* ---- Map, Map2, Keys, Values
\* for v := range seq: the call of yield with the transformed value
MapLoop ==
    /\ op \in MapOps \cup ProjectOps
    /\ opPc = "loop"
    /\ IF loc.j < Len(args.seq)
       THEN LET x == args.seq[loc.j + 1] IN
            /\ out' = Append(out, IF op \in MapOps THEN mapFunc(op, x)
                                  ELSE IF op = "Keys" THEN x.k ELSE x.v)
            /\ opPc' = "yield"
       ELSE /\ out' = out
            /\ opPc' = "idle"
    /\ UNCHANGED <<op, args, captured, loc, hnd, refused, iters>>

\* ---- Filter, Filter2, DropWhile, DropWhile2, TakeWhile, TakeWhile2
\* for v := range seq: one pass of the body up to the call of yield
FilterLoop ==
    /\ op \in FilterOps
    /\ opPc = "loop"
    /\ IF loc.j < Len(args.seq)
       THEN IF Holds(args.predicate, op, args.seq[loc.j + 1])
            THEN /\ out' = Append(out, args.seq[loc.j + 1])
                 /\ loc' = loc
                 /\ opPc' = "yield"
            ELSE /\ out' = out
                 /\ loc' = [loc EXCEPT !.j = @ + 1]
                 /\ opPc' = "loop"
       ELSE UNCHANGED <<out, loc>> /\ opPc' = "idle"
    /\ UNCHANGED <<op, args, captured, hnd, refused, iters>>

DropWhileLoopNoLatch ==
    /\ op \in DropWhileOps
    /\ opPc = "loop"
    /\ IF loc.j < Len(args.seq)
       THEN LET x == args.seq[loc.j + 1]
                start == ~Holds(args.predicate, op, x)
            IN  IF start
                THEN /\ out' = Append(out, x)
                     /\ loc' = loc
                     /\ opPc' = "yield"
                ELSE /\ out' = out
                     /\ loc' = [loc EXCEPT !.j = @ + 1]
                     /\ opPc' = "loop"
       ELSE UNCHANGED <<out, loc>> /\ opPc' = "idle"
    /\ UNCHANGED <<op, args, captured, hnd, refused, iters>>

DropWhileLoop ==
    /\ op \in DropWhileOps
    /\ opPc = "loop"
    /\ IF loc.j < Len(args.seq)
       THEN LET x == args.seq[loc.j + 1]
                start == loc.start \/ ~Holds(args.predicate, op, x)
            IN  IF start
                THEN /\ out' = Append(out, x)
                     /\ loc' = [loc EXCEPT !.start = TRUE]
                     /\ opPc' = "yield"
                ELSE /\ out' = out
                     /\ loc' = [loc EXCEPT !.j = @ + 1]
                     /\ opPc' = "loop"
       ELSE UNCHANGED <<out, loc>> /\ opPc' = "idle"
    /\ UNCHANGED <<op, args, captured, hnd, refused, iters>>

TakeWhileLoopSkips ==
    /\ op \in TakeWhileOps
    /\ opPc = "loop"
    /\ IF loc.j < Len(args.seq)
       THEN IF Holds(args.predicate, op, args.seq[loc.j + 1])
            THEN /\ out' = Append(out, args.seq[loc.j + 1])
                 /\ loc' = loc
                 /\ opPc' = "yield"
            ELSE /\ out' = out
                 /\ loc' = [loc EXCEPT !.j = @ + 1]
                 /\ opPc' = "loop"
       ELSE UNCHANGED <<out, loc>> /\ opPc' = "idle"
    /\ UNCHANGED <<op, args, captured, hnd, refused, iters>>

TakeWhileLoop ==
    /\ op \in TakeWhileOps
    /\ opPc = "loop"
    /\ IF loc.j < Len(args.seq) /\ Holds(args.predicate, op, args.seq[loc.j + 1])
       THEN /\ out' = Append(out, args.seq[loc.j + 1])
            /\ opPc' = "yield"
       ELSE /\ out' = out
            /\ opPc' = "idle"
    /\ UNCHANGED <<op, args, captured, loc, hnd, refused, iters>>

\* yield returns in a range loop over seq: return on false, else the next value
LoopYielded ==
    /\ op \in MapOps \cup ProjectOps \cup FilterOps \cup DropWhileOps \cup TakeWhileOps
    /\ opPc = "yield"
    /\ \E r \in BOOLEAN :
        /\ refused' = ~r
        /\ IF r
           THEN loc' = [loc EXCEPT !.j = @ + 1] /\ opPc' = "loop"
           ELSE loc' = loc /\ opPc' = "idle"
    /\ UNCHANGED <<op, args, captured, hnd, out, iters>>

\* ---- RangeFrom
\* for x := start; ; x += step: the call of yield
RangeFromLoop ==
    /\ op = "RangeFrom"
    /\ opPc = "loop"
    /\ Len(out) < MaxOut
    /\ out' = Append(out, loc.x)
    /\ opPc' = "yield"
    /\ UNCHANGED <<op, args, captured, loc, hnd, refused, iters>>

RangeFromYielded ==
    /\ op = "RangeFrom"
    /\ opPc = "yield"
    /\ \E r \in BOOLEAN :
        /\ refused' = ~r
        /\ IF r
           THEN loc' = [loc EXCEPT !.x = @ + args.step] /\ opPc' = "loop"
           ELSE loc' = loc /\ opPc' = "idle"
    /\ UNCHANGED <<op, args, captured, hnd, out, iters>>

\* ---- Repeat
\* the endless loop for negative times, else for range times
RepeatLoop ==
    /\ op = "Repeat"
    /\ opPc = "loop"
    /\ IF args.times < 0 \/ loc.n < args.times
       THEN /\ Len(out) < MaxOut
            /\ out' = Append(out, args.value)
            /\ opPc' = "yield"
       ELSE /\ out' = out
            /\ opPc' = "idle"
    /\ UNCHANGED <<op, args, captured, loc, hnd, refused, iters>>

RepeatYielded ==
    /\ op = "Repeat"
    /\ opPc = "yield"
    /\ \E r \in BOOLEAN :
        /\ refused' = ~r
        /\ IF r
           THEN loc' = [loc EXCEPT !.n = @ + 1] /\ opPc' = "loop"
           ELSE loc' = loc /\ opPc' = "idle"
    /\ UNCHANGED <<op, args, captured, hnd, out, iters>>

\* ---- Compress (a range loop over ZipPair(seq, selectors)), Compress2
\* the next value of seq
CompressNext1 ==
    /\ op \in CompressOps
    /\ opPc = "next1"
    /\ LET r == HndNext(hnd, 1, args.seq) IN
        IF r.ok
        THEN /\ hnd' = r.hnd
             /\ loc' = [loc EXCEPT !.v1 = r.val]
             /\ opPc' = "next2"
        ELSE /\ hnd' = DeferredStops(r.hnd)
             /\ loc' = loc
             /\ opPc' = "idle"
    /\ UNCHANGED <<op, args, captured, out, refused, iters>>

\* the next selector, and the call of yield if it is true
CompressNext2 ==
    /\ op \in CompressOps
    /\ opPc = "next2"
    /\ LET r == PullNext("IterCtx", args.selectors, hnd[2].pos, hnd[2].stopped)
           h == [hnd EXCEPT ![2] = [@ EXCEPT !.pos = r.pos, !.nexts = @ + 1]]
       IN  IF ~r.ok
           THEN /\ hnd' = DeferredStops(h)
                /\ out' = out
                /\ opPc' = "idle"
           ELSE IF r.val
           THEN /\ hnd' = h
                /\ out' = Append(out, loc.v1)
                /\ opPc' = "yield"
           ELSE /\ hnd' = h
                /\ out' = out
                /\ opPc' = "next1"
    /\ UNCHANGED <<op, args, captured, loc, refused, iters>>

CompressYielded ==
    /\ op \in CompressOps
    /\ opPc = "yield"
    /\ \E r \in BOOLEAN :
        /\ refused' = ~r
        /\ IF r
           THEN hnd' = hnd /\ opPc' = "next1"
           ELSE hnd' = DeferredStops(hnd) /\ opPc' = "idle"
    /\ UNCHANGED <<op, args, captured, loc, out, iters>>

\* ---- the operator and its arguments
Ints == (0 - MaxAbs)..MaxAbs
Steps == (0 - MaxStep)..MaxStep
Lens == 0..MaxLen

\* up to MaxSeqs input sequences, each of a length in Lens
SeqTuples(o) ==
    UNION {{[s \in 1..k |-> Input(o, s, f[s])] : f \in [1..k -> Lens]} : k \in 0..MaxSeqs}

ArgsOf(o) ==
    IF o = "Range"
    THEN {[start |-> a, end |-> b, step |-> c] : a \in Ints, b \in Ints, c \in Steps}
    ELSE IF o = "RangeUntil"
    THEN {[start |-> 0, end |-> b, step |-> c] : b \in Ints, c \in Steps}
    ELSE IF o \in {"Slice", "Slice2"}
    THEN {[seq |-> Input(o, 1, n), start |-> a, end |-> b, step |-> c] :
            n \in Lens, a \in Ints, b \in Ints, c \in Steps}
    ELSE IF o \in {"SliceUntil", "SliceUntil2"}
    THEN {[seq |-> Input(o, 1, n), start |-> 0, end |-> b, step |-> c] :
            n \in Lens, b \in Ints, c \in Steps}
    ELSE IF o = "Enumerate"
    THEN {[seq |-> Input(o, 1, n), start |-> a] : n \in Lens, a \in {0, 2}}
    ELSE IF o = "Flatten"
    THEN {[seq |-> Input("Keys", 1, n),
           seqs |-> <<Keys(Input("Keys", 1, n)), Values(Input("Keys", 1, n))>>] :
            n \in Lens}
    ELSE IF o \in ZipOps \cup ChainOps
    THEN {[seqs |-> ss] : ss \in SeqTuples(o)}
    ELSE IF o = "ZipLongest"
    THEN {[seqs |-> ss, fillValue |-> f] : ss \in SeqTuples(o), f \in {0, Val(o, 1, 1)}}
    ELSE IF o = "ZipPair"
    THEN {[seq1 |-> Input(o, 1, m), seq2 |-> Input(o, 2, n)] : m \in Lens, n \in Lens}
    ELSE IF o \in CycleOps
    THEN {[iterable |-> Input(o, 1, n)] : n \in Lens}
    ELSE IF o \in MapOps \cup ProjectOps
    THEN {[seq |-> Input(o, 1, n)] : n \in Lens}
    ELSE IF o \in FilterOps \cup DropWhileOps \cup TakeWhileOps
    THEN {[seq |-> Input(o, 1, n), predicate |-> p] : n \in Lens, p \in Preds}
    ELSE IF o \in CompressOps
    THEN {[seq |-> Input(o, 1, n), selectors |-> sel] :
            n \in Lens, sel \in UNION {[1..m -> BOOLEAN] : m \in Lens}}
    ELSE IF o = "RangeFrom"
    THEN {[start |-> a, step |-> c] : a \in Ints, c \in Steps}
    ELSE IF o = "Repeat"
    THEN {[value |-> 7, times |-> t] : t \in Ints}
    ELSE {}

Ops == RangeOps \cup SliceOps \cup ZipOps \cup ChainOps \cup CycleOps
        \cup MapOps \cup FilterOps \cup CompressOps \cup DropWhileOps
        \cup TakeWhileOps \cup ProjectOps
        \cup {"Enumerate", "ZipPair", "ZipLongest", "RangeFrom", "Repeat"}

OpInit ==
    /\ op \in Ops
    /\ args \in ArgsOf(op)
    /\ captured = <<>>
    /\ opPc = "new"
    /\ loc = <<>>
    /\ hnd = <<>>
    /\ out = <<>>
    /\ refused = FALSE
    /\ iters = 0

InitOps == BridgeIdle /\ AccIdle /\ OpInit

OpStep ==
    \/ Construct
    \/ Iterate
    \/ RangeLoop
    \/ RangeYielded
    \/ SliceSkip
    \/ SliceLoop
    \/ SliceYielded
    \/ EnumerateLoop
    \/ EnumerateYielded
    \/ ZipLoop
    \/ ZipYielded
    \/ ZipPairNext1
    \/ ZipPairNext2
    \/ ZipPairYielded
    \/ ZipLongestPull
    \/ ZipLongestEmit
    \/ ZipLongestYielded
    \/ ChainLoop
    \/ ChainYielded
    \/ CycleFirst
    \/ CycleAgain
    \/ CycleYielded
    \/ MapLoop
    \/ FilterLoop
    \/ DropWhileLoop
    \/ TakeWhileLoop
    \/ LoopYielded
    \/ RangeFromLoop
    \/ RangeFromYielded
    \/ RepeatLoop
    \/ RepeatYielded
    \/ CompressNext1
    \/ CompressNext2
    \/ CompressYielded

NextOps == op \in Ops /\ OpStep /\ UNCHANGED <<bridgeVars, accVars>>

SpecOps == InitOps /\ [][NextOps]_vars

\* the consumer's goroutine keeps running: a step that can be taken is taken
FairSpecOps == SpecOps /\ WF_vars(NextOps)

\* ------------------------------------------------------- every operator
BridgeOps == {"IterCtx", "IterCtx2"}

InitAll == Init \/ InitAccumulate \/ InitOps

NextAll ==
    \/ op \in BridgeOps /\ Next
    \/ op = "Accumulate" /\ NextAccumulate
    \/ NextOps

\* the operators other than IterCtx run on the consumer's goroutine alone;
\* the goroutines of IterCtx are scheduled as in FairSpec
SpecAll ==
    /\ InitAll
    /\ [][NextAll]_vars
    /\ WF_vars(op \in BridgeOps /\ ConsumerStep /\ UNCHANGED <<accVars, opVars>>)
    /\ \A w \in Workers :
         WF_vars(op \in BridgeOps /\ WorkerStep(w) /\ UNCHANGED <<accVars, opVars>>)

\* ---------------------------------------------------------------- claims
InNext == {w \in Workers : wpc[w] = "innext"}

\* the spawn bound never binds: a loop iteration begins only after the
\* previous one delivered a value
SpawnBoundUnreached == cur <= Len(seq) + 1

\* C1: at most one call of the inner next() is in progress at any instant,
\* stop() is never in progress while a next() is, and every next() and the
\* stop() run while their caller holds pullMutex.
C1_MutualExclusion ==
    /\ Cardinality(InNext) + (IF pc = "instop" THEN 1 ELSE 0) <= 1
    /\ \A w \in InNext : pullMutex = ByWorker(w)
    /\ pc = "instop" => pullMutex = ByConsumer

\* C1 witness: a worker is inside next() while the consumer, leaving after
\* the cancellation, waits for pullMutex to call stop().
C1_Witness ==
    /\ pc = "deferLock"
    /\ exit = "cancel"
    /\ InNext # {}

\* C2: no state is reachable in which the consumer is blocked acquiring
\* pullMutex (it receives from res no more) while the worker that holds
\* pullMutex is blocked sending its result on res.
C2_NoDeadlock ==
    ~(/\ pc = "deferLock"
      /\ \E w \in Workers : wpc[w] = "send" /\ pullMutex = ByWorker(w))

\* C3: on every exit path stop() is called exactly once (it is eventually
\* called and never called twice), and only with pullMutex held by the
\* releasing code.
C3_StopExactlyOnce ==
    /\ <>[](stopCalls = 1)
    /\ [](pc = "instop" => pullMutex = ByConsumer)

\* C4: every worker makes one next() call, reports and terminates: once the
\* iteration function has returned (nothing receives from res any more) no
\* worker is blocked sending on res.
C4_NoWorkerLeftSending ==
    pc = "done" => \A w \in Workers : wpc[w] # "send"

\* C5: no value is delivered after the signal has fired: a select evaluated
\* with ctx.Done() closed never takes the value case towards yield.
C5_NoDeliveryAfterCancel ==
    [][(ctxDone /\ pc = "select") => pc' # "yield"]_vars

\* C6: no call of the inner next() begins after stop() has been called.
C6_NoNextAfterStop ==
    [][stopCalls > 0 => nextCalls' = nextCalls]_vars

\* C7: the values delivered so far are a prefix of the inner sequence, in
\* its order, with none skipped, repeated or reordered.
C7_DeliveredIsPrefix ==
    /\ Len(delivered) <= Len(seq)
    /\ delivered = SubSeq(seq, 1, Len(delivered))

\* C7 witness: several values were delivered and the iteration was then cut
\* short by the cancellation or by the consumer.
C7_Witness ==
    /\ Len(delivered) >= 2
    /\ Len(delivered) < Len(seq)
    /\ exit \in {"cancel", "stop"}

\* C8: when the signal never fires and the consumer never stops, exactly the
\* elements of seq are delivered, in order, and the iteration ends; the zero
\* value sent with ok = false is not delivered.
C8_ExhaustedDeliversAll ==
    /\ [](exit = "exhausted" => delivered = seq)
    /\ [](\A i \in 1..Len(delivered) : delivered[i] # Zero(variant))
    /\ []((pc = "done" /\ ~ctxDone) => exit \in {"exhausted", "stop", "panic"})
    /\ <>(ctxDone \/ pc = "done")

\* C8 witness: a non-empty sequence was drained to its end without
\* cancellation and the iteration function returned.
C8_Witness ==
    /\ pc = "done"
    /\ exit = "exhausted"
    /\ ~ctxDone
    /\ Len(seq) >= 2
    /\ delivered = seq

\* C9: if yield panics, stop() is still called exactly once, no worker is
\* left running or blocked and pullMutex is left unlocked, and the panic
\* leaves the iteration function.
C9_PanicReleases ==
    /\ []((pc = "done" /\ exit = "panic") =>
            /\ stopCalls = 1
            /\ stopped
            /\ pullMutex = Free
            /\ \A w \in Workers : wpc[w] \in {"unspawned", "done"})
    /\ (exit = "panic") ~> (pc = "done")

\* C9 witness: the callback panicked on a delivered value and the iteration
\* function has unwound.
C9_Witness ==
    /\ pc = "done"
    /\ exit = "panic"
    /\ Len(delivered) >= 1


\* the running fold of the first n values of s, starting from init
RECURSIVE FoldN(_, _, _, _)
FoldN(fn, init, s, n) ==
    IF n = 0 THEN init ELSE Function(fn, FoldN(fn, init, s, n - 1), s[n])

\* C10: every iteration of the sequence returned by Accumulate yields the
\* running fold of seq starting again from initial, so a second iteration
\* yields the same values as the first.
C10_AccumulateStateless ==
    \A i \in 1..Len(accOut) : accOut[i] = FoldN(accFn, accInitial, accSeq, i)


\* ---------------------------------------------- claims, other operators
\* the iteration in progress, or the last one, ran to its end without the
\* consumer stopping it
Completed == opPc = "idle" /\ iters > 0 /\ ~refused

\* C11: on every iteration Enumerate(seq, start) yields the pairs
\* (start + i, seq[i]), counting from start again each time.
C11_EnumerateStateless ==
    op = "Enumerate" =>
        \A i \in 1..Len(out) : out[i] = <<args.start + i - 1, args.seq[i]>>

\* the 0-based positions of seq that Slice(seq, start, end, step) selects
SlicePositions(a) ==
    {p \in 0..(Len(a.seq) - 1) :
        /\ p >= a.start
        /\ p < a.end
        /\ (p - a.start) % a.step = 0}

\* the values of s at the 0-based positions P, in order
RECURSIVE Pick(_, _, _)
Pick(s, P, p) ==
    IF p >= Len(s) THEN <<>>
    ELSE (IF p \in P THEN <<s[p + 1]>> ELSE <<>>) \o Pick(s, P, p + 1)

\* C12: for all integers start and end and every step > 0, Slice and Slice2
\* yield exactly the elements of seq at the positions start, start+step, ...
\* that are below end and inside seq, in order.
C12_SliceSelects ==
    (op \in SliceOps /\ Completed) => out = Pick(args.seq, SlicePositions(args), 0)

\* the count of the claim: max(0, 1 + floor((end - start - sign(step)) / step))
\* when step points from start towards end, else 0
RangeCount(a) ==
    IF (a.step > 0 /\ a.start < a.end) \/ (a.step < 0 /\ a.start > a.end)
    THEN LET sign == IF a.step > 0 THEN 1 ELSE -1
             c == 1 + ((a.end - a.start - sign) \div a.step)
         IN  IF c > 0 THEN c ELSE 0
    ELSE 0

\* C14: Range(start, end, step) yields exactly the count values
\* start + i*step, i = 0..count-1, each strictly before end in the direction
\* of step.
C14_RangeValues ==
    op \in RangeOps =>
        /\ \A i \in 1..Len(out) :
            /\ out[i] = args.start + (i - 1) * args.step
            /\ IF args.step > 0 THEN out[i] < args.end ELSE out[i] > args.end
        /\ Len(out) <= RangeCount(args)
        /\ Completed => Len(out) = RangeCount(args)

\* C14 witness: a descending range with a step of more than one that does
\* not land on end was iterated to its end.
C14_Witness ==
    /\ op = "Range"
    /\ Completed
    /\ args.step < -1
    /\ Len(out) >= 2
    /\ args.start + Len(out) * args.step < args.end

\* C15: Range and RangeUntil with step == 0 and the Slice constructors with
\* step <= 0 panic in the constructor, before a sequence exists and with
\* nothing pulled; with a valid step the constructor does not panic and
\* nothing panics later.
C15_FailFast ==
    (op \in RangeOps \cup SliceOps /\ opPc # "new") =>
        LET invalid == IF op \in RangeOps THEN args.step = 0 ELSE args.step <= 0 IN
        /\ (opPc = "panic") = invalid
        /\ invalid => (iters = 0 /\ hnd = <<>> /\ out = <<>>)

\* C15 witness: a Slice constructor was called with step 0 and panicked.
C15_Witness ==
    /\ op \in SliceOps
    /\ args.step = 0
    /\ opPc = "panic"


\* the least and the greatest length among the sequences ss (0 for none)
MinLen(ss) ==
    IF Len(ss) = 0 THEN 0
    ELSE CHOOSE m \in {Len(ss[s]) : s \in 1..Len(ss)} :
            \A s \in 1..Len(ss) : m <= Len(ss[s])

MaxLenOf(ss) ==
    IF Len(ss) = 0 THEN 0
    ELSE CHOOSE m \in {Len(ss[s]) : s \in 1..Len(ss)} :
            \A s \in 1..Len(ss) : m >= Len(ss[s])

\* rounds r..n over ss, flattened: round r holds ss[s][r] for every s, or
\* fill where ss[s] has ended
RECURSIVE Rounds(_, _, _, _)
Rounds(ss, fill, r, n) ==
    IF r > n THEN <<>>
    ELSE [s \in 1..Len(ss) |-> IF r <= Len(ss[s]) THEN ss[s][r] ELSE fill]
         \o Rounds(ss, fill, r + 1, n)

IsPrefix(a, b) == Len(a) <= Len(b) /\ a = SubSeq(b, 1, Len(a))

\* C13: Zip and Zip2 over k >= 1 sequences yield exactly min-length complete
\* rounds, k values each, and no value of a round that some sequence could
\* not complete.
C13_ZipCompleteRounds ==
    (op \in ZipOps /\ Len(args.seqs) >= 1) =>
        /\ IsPrefix(out, Rounds(args.seqs, 0, 1, MinLen(args.seqs)))
        /\ Completed => out = Rounds(args.seqs, 0, 1, MinLen(args.seqs))

\* C16: ZipPair(a, b) yields exactly min(m, n) pairs, the i-th being
\* (a[i], b[i]), and then stops.
C16_ZipPairPairs ==
    op = "ZipPair" =>
        LET n == MinLen(<<args.seq1, args.seq2>>) IN
        /\ Len(out) <= n
        /\ \A i \in 1..Len(out) : out[i] = <<args.seq1[i], args.seq2[i]>>
        /\ Completed => Len(out) = n

\* C16 witness: the second sequence is the shorter one and ZipPair ran to
\* its end with some pairs yielded.
C16_Witness ==
    /\ op = "ZipPair"
    /\ Completed
    /\ Len(args.seq2) < Len(args.seq1)
    /\ Len(out) >= 2

\* C17: ZipLongest(fill, seqs...) yields exactly max-length rounds of k
\* values, with fill where a sequence has ended, and no all-fill round after
\* the longest sequence ends.
C17_ZipLongestRounds ==
    op = "ZipLongest" =>
        LET want == Rounds(args.seqs, args.fillValue, 1, MaxLenOf(args.seqs)) IN
        /\ IsPrefix(out, want)
        /\ Completed => out = want

\* C17 witness: the first sequence ended two rounds before the second and
\* ZipLongest ran to its end.
C17_Witness ==
    /\ op = "ZipLongest"
    /\ Completed
    /\ Len(args.seqs) = 2
    /\ Len(args.seqs[1]) >= 1
    /\ Len(args.seqs[2]) >= Len(args.seqs[1]) + 2
    /\ Len(out) = 2 * Len(args.seqs[2])

\* the concatenation of the first n sequences of ss
RECURSIVE Concat(_, _)
Concat(ss, n) == IF n = 0 THEN <<>> ELSE Concat(ss, n - 1) \o ss[n]

\* C18: Chain and Chain2 yield exactly the concatenation of the sequences in
\* argument order and then stop; what was yielded when a sequence is being
\* iterated is all of the earlier sequences and a prefix of this one.
C18_ChainConcatenates ==
    op \in ChainOps =>
        /\ (opPc \in {"loop", "yield"} /\ loc.s <= Len(args.seqs)) =>
             \E n \in 0..Len(args.seqs[loc.s]) :
                out = Concat(args.seqs, loc.s - 1) \o SubSeq(args.seqs[loc.s], 1, n)
        /\ IsPrefix(out, Concat(args.seqs, Len(args.seqs)))
        /\ Completed => out = Concat(args.seqs, Len(args.seqs))

\* C18 witness: two non-empty sequences were chained to the end.
C18_Witness ==
    /\ op \in ChainOps
    /\ Completed
    /\ Len(args.seqs) = 2
    /\ Len(args.seqs[1]) >= 1
    /\ Len(args.seqs[2]) >= 2

\* C19: over a non-empty seq of length L the first n values of Cycle and
\* Cycle2 are seq[i mod L], i = 0..n-1, those after the first pass coming
\* from the saved copy, and Cycle returns only when the consumer stops it.
C19_CycleRepeats ==
    (op \in CycleOps /\ Len(args.iterable) > 0) =>
        LET L == Len(args.iterable) IN
        /\ \A i \in 1..Len(out) : out[i] = args.iterable[((i - 1) % L) + 1]
        /\ (opPc = "idle" /\ iters > 0) => refused
        /\ opPc = "again" => loc.saved = args.iterable

\* C19 witness: a sequence of at least two values is in its third pass.
C19_Witness ==
    /\ op \in CycleOps
    /\ Len(args.iterable) >= 2
    /\ Len(out) > 2 * Len(args.iterable)


\* C20: in every operator, once the consumer's callback has returned false
\* it is not called again during that iteration, and the iteration returns.
C20_NoYieldAfterStop ==
    /\ [](refused => opPc = "idle")
    /\ [][refused => (out' = out \/ iters' # iters)]_vars
    /\ [][(accPc = "idle" /\ accIters' = accIters) => accOut' = accOut]_vars
    /\ [][exit = "stop" => delivered' = delivered]_vars
    /\ (exit = "stop") ~> (pc = "done")

\* C20 witness: the consumer stopped ZipLongest in the middle of a round
\* and the iteration function returned.
C20_Witness ==
    /\ op = "ZipLongest"
    /\ refused
    /\ opPc = "idle"
    /\ Len(args.seqs) = 2
    /\ Len(out) = 3
    /\ MaxLenOf(args.seqs) >= 2

\* ---- DropWhile, DropWhile2
\* the position of the first element of s for which p is false, Len(s) + 1
\* when there is none
FirstFalse(o, s, p) ==
    LET F == {i \in 1..Len(s) : ~Holds(p, o, s[i])} IN
    IF F = {} THEN Len(s) + 1 ELSE CHOOSE i \in F : \A j \in F : i <= j

\* C21: DropWhile and DropWhile2 yield exactly the suffix of seq that begins
\* at the first element for which the predicate is false, the later elements
\* for which it is true included, and nothing when it is true of every
\* element; a run in progress has yielded a prefix of that suffix
C21_DropWhileSuffix ==
    (op \in DropWhileOps /\ iters > 0) =>
        LET suffix == SubSeq(args.seq, FirstFalse(op, args.seq, args.predicate),
                             Len(args.seq))
        IN  /\ IsPrefix(out, suffix)
            /\ Completed => out = suffix

\* a completed DropWhile that dropped an element and then yielded an element
\* for which the predicate is true
C21_Witness ==
    /\ op \in DropWhileOps
    /\ Completed
    /\ 0 < Len(out) /\ Len(out) < Len(args.seq)
    /\ \E i \in 1..Len(out) : Holds(args.predicate, op, out[i])

\* ---- Flatten
\* C22: Flatten(seq) over the pairs (k1, v1) .. (kn, vn) yields k1 .. kn
\* followed by v1 .. vn
C22_FlattenKeysThenValues ==
    (op = "Flatten" /\ Completed) => out = Keys(args.seq) \o Values(args.seq)

\* ---- Slice of a Slice
\* C23: with step 1 and start 0, slicing the values of Slice(seq, 0, end, 1)
\* once more to the same end yields exactly those values again
C23_SliceIdempotent ==
    (op \in SliceOps /\ Completed /\ args.start = 0 /\ args.step = 1) =>
        /\ out = Slice(args.seq, 0, args.end, 1)
        /\ Slice(out, 0, args.end, 1) = out
        /\ Slice(Slice(args.seq, 0, args.end, 1), 0, args.end, 1) = out

\* a completed Slice that cut its input short at end
C23_Witness ==
    /\ op \in SliceOps
    /\ Completed
    /\ args.start = 0 /\ args.step = 1
    /\ 0 < args.end /\ args.end < Len(args.seq)
    /\ Len(out) = args.end

\* ---- IterCtx, IterCtx2: pulling and cancellation
\* C24: the bridge never reads ahead: the calls of the inner next() and the
\* workers spawned are at most one more than the values passed to the
\* callback, and when the consumer has stopped after n values exactly n calls
\* of next() have been made
C24_NoReadAhead ==
    /\ nextCalls <= Len(delivered) + 1
    /\ cur <= Len(delivered) + 1
    /\ exit = "stop" => nextCalls = Len(delivered)

\* the consumer stopped after two of three values, two calls of next() made
C24_Witness ==
    /\ exit = "stop"
    /\ Len(seq) = 3
    /\ Len(delivered) = 2
    /\ nextCalls = 2

\* C25: once the cancellation signal has fired, at most one further value is
\* passed to the callback
C25_AtMostOneAfterCancel ==
    \A n \in 0..MaxLen :
        []((ctxDone /\ Len(delivered) = n) => [](Len(delivered) <= n + 1))

\* ---- termination
\* C26: every iteration of Zip and Zip2 terminates, whatever the number of
\* input sequences, none included
C26_ZipTerminates ==
    (op \in ZipOps /\ opPc = "loop") ~> (opPc = "idle")

\* C27: Cycle and Cycle2 never run on without producing: from either loop
\* the iteration reaches a call of yield or returns, also over an empty seq
C27_CycleProgress ==
    (op \in CycleOps /\ opPc \in {"first", "again"} /\ Len(out) < MaxOut)
        ~> (opPc \in {"yield", "idle"})

\* ---- Slice: the elements pulled
Max(a, b) == IF a >= b THEN a ELSE b

C29_TakeThenDrop ==
    /\ (op \in TakeWhileOps /\ Completed) =>
            /\ out = TakeWhile(op, args.seq, args.predicate)
            /\ out \o DropWhile(op, args.seq, args.predicate) = args.seq
    /\ (op \in DropWhileOps /\ Completed) =>
            /\ out = DropWhile(op, args.seq, args.predicate)
            /\ TakeWhile(op, args.seq, args.predicate) \o out = args.seq

\* a completed TakeWhile that took some and left some of seq
C29_Witness ==
    /\ op \in TakeWhileOps
    /\ Completed
    /\ 0 < Len(out) /\ Len(out) < Len(args.seq)

\* ---- the pull handles
HandleOps == SliceOps \cup ZipOps \cup CompressOps \cup {"ZipPair", "ZipLongest"}

\* C30: every pull handle is released exactly once when the iteration
\* function returns and not before, next() is never called on a released
\* handle, and ZipLongest calls next() on an input at most once after its
\* last value
C30_HandlesReleasedOnce ==
    (op \in HandleOps /\ iters > 0) =>
        \A s \in DOMAIN hnd :
            /\ hnd[s].late = 0
            /\ hnd[s].stops = (IF opPc = "idle" THEN 1 ELSE 0)
            /\ hnd[s].stopped = (opPc = "idle")
            /\ op = "ZipLongest" => hnd[s].nexts <= Len(args.seqs[s]) + 1

\* ZipLongest over two inputs of different lengths ran to the end: the
\* shorter input was asked once more after its last value and both handles
\* are released
C30_Witness ==
    /\ op = "ZipLongest"
    /\ Completed
    /\ Len(args.seqs) = 2
    /\ Len(args.seqs[1]) < Len(args.seqs[2])
    /\ hnd[1].nexts = Len(args.seqs[1]) + 1
    /\ hnd[1].stops = 1 /\ hnd[2].stops = 1

=============================================================================
